---- MODULE Spec2Model ----
\* Model of static/js/main.js: the view controller of the news front end.
\* Language filter, article count, search, load-more pagination and the
\* notification banner, as handlers run one at a time by the browser's
\* event loop, with fetch responses and timers arriving in between.
EXTENDS Integers, Sequences, FiniteSets, TLC

\* ---------------------------------------------------------------- bounds
MaxInitCards == 2
MaxSelections == 2
MaxFilterLoads == 1
MaxLoads == 3
MaxStartPage == 2
MaxSearches == 2
MaxResults == 2
MaxFetches == 2
MaxShows == 4
MaxPageLoads == 3
TimeSlack == 2

\* ------------------------------------------------------ program constants
ShowDelay == 10
HideDelay == 300
NotifyDelay == 5000
PageSize == 20
DefaultPage == 1
TickDelay == 1000
CountdownStart == 30
MsPerSecond == 1000
SecondsPerMinute == 60
MinutesPerHour == 60
HoursPerDay == 24
DaysPerWeek == 7

\* ---------------------------------------------------------------- values
Absent == "absent"
Languages == {"en", "rw"}
Selections == {"all"} \cup Languages

\* The label texts the load-more handler writes or restores.
OriginalLabel == "Load More"
LoadingLabel == "Loading..."

VARIABLES
    cards,            \* .articles-grid: the article cards in document order
    articleCards,     \* the NodeList captured by initializeLanguageFilter
    timers,           \* pending setTimeout callbacks, in registration order
    dropdownValue,    \* languageFilter.value
    activeBtn,        \* the language button holding class "active"
    url,              \* window.location: its language and page parameters
    articleCount,     \* the number shown in #articleCount
    loadMoreBtn,      \* #loadMoreBtn: innerHTML, disabled, style.display
    lmInFlight,       \* load-more handlers suspended at their fetch
    searchInFlight,   \* search handlers suspended at their fetch
    searchResults,    \* #searchResults: innerHTML and style.display
    defaultPrevented, \* whether the last submit event had preventDefault called
    notifications,    \* the .notification elements in the page
    notifSeq,         \* number of notification elements created so far
    searchSeq,        \* number of search requests issued so far
    lastSelection,    \* history: the most recent language selection
    domAtSelection,   \* history: number of cards in the DOM at that selection
    lmLog,            \* history: load-more requests and their outcomes
    searchLog,        \* history: search submissions and how they ended
    lastShown,        \* history: message and type of the latest showNotification
    fetchNewsBtn,     \* #fetchNewsBtn: innerHTML and disabled
    fetchInFlight,    \* fetch-now handlers suspended at their fetch
    countdowns,       \* the countdown variable of each setInterval closure
    fetchLog,         \* history: fetch-now handler runs and how they ended
    reloadLog,        \* history: the tick each window.location.reload ran on
    backendStatus,    \* #backendStatus: className and detail text
    healthInFlight,   \* health requests awaiting their response
    statsInFlight,    \* stats requests awaiting their response
    stats,            \* #totalArticles, #englishArticles, #kinyarwandaArticles
    statusLog,        \* history: requests sent and indicator set, per page load
    timeInput,        \* age in ms of the timestamp given to formatTimeAgo
    timeLabel         \* what formatTimeAgo returned for it

vars == <<cards, articleCards, timers, dropdownValue, activeBtn, url,
          articleCount, loadMoreBtn, lmInFlight, searchInFlight,
          searchResults, defaultPrevented, notifications, notifSeq,
          searchSeq, lastSelection, domAtSelection, lmLog, searchLog,
          lastShown, fetchNewsBtn, fetchInFlight, countdowns, fetchLog,
          reloadLog, backendStatus, healthInFlight, statsInFlight, stats,
          statusLog, timeInput, timeLabel>>

filterVars == <<cards, timers, dropdownValue, activeBtn, articleCount,
                lastSelection, domAtSelection>>
loadVars == <<loadMoreBtn, lmInFlight, lmLog>>
searchVars == <<searchInFlight, searchResults, defaultPrevented, searchSeq,
                searchLog>>
notifVars == <<notifications, notifSeq, lastShown>>
fetchVars == <<fetchNewsBtn, fetchInFlight, countdowns, fetchLog, reloadLog>>
statusVars == <<backendStatus, healthInFlight, statsInFlight, stats, statusLog>>
timeVars == <<timeInput, timeLabel>>

\* ------------------------------------------------------------- helpers
SeqSum(f, n) == LET RECURSIVE S(_)
                    S(k) == IF k = 0 THEN 0 ELSE f[k] + S(k - 1)
                IN S(n)

\* A card as the server renders it or createArticleCard builds it: no inline
\* style yet.
Card(id, lang) ==
    [id |-> id, language |-> lang, display |-> "", opacity |-> "",
     transform |-> ""]

\* card.style.display !== 'none'
Visible(card) == card.display # "none"

\* ------------------------------------------------------ language filter
\* selectedLanguage === 'all' || cardLanguage === selectedLanguage
Matches(sel, lang) == sel = "all" \/ lang = sel

\* The synchronous part of articleCards.forEach: the captured cards only.
FilterCards(cs, captured, sel) ==
    [i \in DOMAIN cs |->
        IF \E k \in DOMAIN captured : captured[k] = i
        THEN IF Matches(sel, cs[i].language)
             THEN [cs[i] EXCEPT !.display = "block"]
             ELSE [cs[i] EXCEPT !.opacity = "0",
                                !.transform = "translateY(20px)"]
        ELSE cs[i]]

\* The timeouts the same forEach registers, one per captured card, in order.
FilterTimers(cs, captured, sel) ==
    [k \in DOMAIN captured |->
        IF Matches(sel, cs[captured[k]].language)
        THEN [kind |-> "show", target |-> captured[k], delay |-> ShowDelay]
        ELSE [kind |-> "hide", target |-> captured[k], delay |-> HideDelay]]

\* updateArticleCount: counts over a fresh querySelectorAll('.article-card').
updateArticleCount(cs, language) ==
    SeqSum([i \in DOMAIN cs |->
               IF Matches(language, cs[i].language) /\ Visible(cs[i])
               THEN 1 ELSE 0], Len(cs))

\* url.searchParams.delete / set of 'language', then pushState.
SetLanguageParam(u, sel) ==
    IF sel = "all" THEN [u EXCEPT !.language = Absent]
                   ELSE [u EXCEPT !.language = sel]

\* languageFilter 'change' handler.
DropdownChange(sel) ==
    /\ dropdownValue' = sel
    /\ cards' = FilterCards(cards, articleCards, sel)
    /\ timers' = timers \o FilterTimers(cards, articleCards, sel)
    /\ url' = SetLanguageParam(url, sel)
    /\ lastSelection' = [value |-> sel, via |-> "dropdown",
                         count |-> lastSelection.count + 1]
    /\ domAtSelection' = Len(cards)
    /\ UNCHANGED <<articleCards, activeBtn, articleCount>>
    /\ UNCHANGED <<loadVars, searchVars, notifVars>>
    /\ UNCHANGED <<fetchVars, statusVars, timeVars>>

\* .language-btn 'click' handler.
LanguageBtnClick(sel) ==
    /\ activeBtn' = sel
    /\ cards' = FilterCards(cards, articleCards, sel)
    /\ timers' = timers \o FilterTimers(cards, articleCards, sel)
    /\ articleCount' = updateArticleCount(cards', sel)
    /\ lastSelection' = [value |-> sel, via |-> "button",
                         count |-> lastSelection.count + 1]
    /\ domAtSelection' = Len(cards)
    /\ UNCHANGED <<articleCards, dropdownValue, url>>
    /\ UNCHANGED <<loadVars, searchVars, notifVars>>
    /\ UNCHANGED <<fetchVars, statusVars, timeVars>>

\* ---------------------------------------------------------------- timers
\* A pending timeout may run once no timeout registered before it has a delay
\* that is no longer: that one is due first.
Due(ts, i) == \A j \in 1..(i - 1) : ts[j].delay > ts[i].delay

RemoveAt(s, i) == SubSeq(s, 1, i - 1) \o SubSeq(s, i + 1, Len(s))

\* The body of each setTimeout callback.
RunTimer(t, cs) ==
    IF t.kind = "show"
    THEN [cs EXCEPT ![t.target].opacity = "1",
                    ![t.target].transform = "translateY(0)"]
    ELSE IF t.kind = "hide"
    THEN [cs EXCEPT ![t.target].display = "none"]
    ELSE cs

\* Variant: the callback removes whatever banner is on the page.
RunDismissAll(t, ns) ==
    IF t.kind = "dismiss" THEN ns \ ns ELSE ns

\* The auto-remove callback: if (notification.parentElement) remove().
RunDismiss(t, ns) ==
    IF t.kind = "dismiss" THEN {n \in ns : n.id # t.target} ELSE ns

TimerFire(i) ==
    /\ i \in DOMAIN timers
    /\ timers[i].kind # "interval"
    /\ Due(timers, i)
    /\ cards' = RunTimer(timers[i], cards)
    /\ notifications' = RunDismiss(timers[i], notifications)
    /\ timers' = RemoveAt(timers, i)
    /\ UNCHANGED <<articleCards, dropdownValue, activeBtn, url, articleCount,
                   lastSelection, domAtSelection, notifSeq, lastShown>>
    /\ UNCHANGED <<loadVars, searchVars>>
    /\ UNCHANGED <<fetchVars, statusVars, timeVars>>

\* --------------------------------------------------------- notifications
\* Variant: the new banner is never appended to the page.
ShownNotificationsNoAppend(ns, id, message, type) == ns \ ns

\* Variant: the banners already on the page are left in place.
ShownNotificationsKeep(ns, id, message, type) ==
    ns \cup {[id |-> id, message |-> message, type |-> type]}

\* showNotification: drop every .notification, append the new one.
ShownNotifications(ns, id, message, type) ==
    (ns \ ns) \cup {[id |-> id, message |-> message, type |-> type]}

\* ... and register its auto-remove timeout.
NotifyTimer(id) == [kind |-> "dismiss", target |-> id, delay |-> NotifyDelay]

\* The close button: onclick="this.parentElement.remove()".
NotificationClose(id) ==
    /\ \E n \in notifications : n.id = id
    /\ notifications' = {n \in notifications : n.id # id}
    /\ UNCHANGED <<articleCards, url, timers, notifSeq, lastShown>>
    /\ UNCHANGED <<cards, dropdownValue, activeBtn, articleCount,
                   lastSelection, domAtSelection>>
    /\ UNCHANGED <<loadVars, searchVars>>
    /\ UNCHANGED <<fetchVars, statusVars, timeVars>>

\* showNotification as a whole, followed by the timers the caller registers
\* right after it.
NotifyThen(message, type, ts, later) ==
    /\ notifSeq' = notifSeq + 1
    /\ notifications' =
           ShownNotifications(notifications, notifSeq + 1, message, type)
    /\ lastShown' = [message |-> message, type |-> type]
    /\ timers' = Append(ts, NotifyTimer(notifSeq + 1)) \o later

\* showNotification as a whole, as the catch blocks call it.
Notify(message, type, ts) == NotifyThen(message, type, ts, <<>>)

\* A call of window.showNotification from outside the handlers modelled here.
ShowNotification(message, type) ==
    /\ Notify(message, type, timers)
    /\ UNCHANGED <<articleCards, url>>
    /\ UNCHANGED <<cards, dropdownValue, activeBtn, articleCount,
                   lastSelection, domAtSelection>>
    /\ UNCHANGED <<loadVars, searchVars>>
    /\ UNCHANGED <<fetchVars, statusVars, timeVars>>

\* --------------------------------------------------------------- articles
\* Backend articles, drawn from a few fixed shapes: "en" and "rw" are lists
\* in one language, "alt" alternates en, rw, ..., and "bad" is a list whose
\* second article carries no language field.
ArticleLang(pat, i) ==
    IF pat = "en" THEN "en"
    ELSE IF pat = "rw" THEN "rw"
    ELSE IF pat = "alt" THEN (IF i % 2 = 1 THEN "en" ELSE "rw")
    ELSE IF i = 2 THEN Absent ELSE "rw"

MkArticles(n, pat, base) ==
    [i \in 1..n |-> [id |-> base + i, title |-> <<"title", base + i>>,
                     language |-> ArticleLang(pat, i)]]

\* A fetch outcome: rejected or unparseable ("error"), the JSON value null
\* ("null"), or a JSON object whose articles field is a list or is missing.
\* hasList tells whether the object has an articles field at all.
ErrorResponse == [kind |-> "error", hasList |-> FALSE, articles |-> <<>>]
NullResponse == [kind |-> "null", hasList |-> FALSE, articles |-> <<>>]
NoListResponse == [kind |-> "json", hasList |-> FALSE, articles |-> <<>>]
JsonResponse(articles) ==
    [kind |-> "json", hasList |-> TRUE, articles |-> articles]

\* data.articles && data.articles.length > 0
HasArticles(resp) == resp.hasList /\ Len(resp.articles) > 0

\* ------------------------------------------------------------- load more
\* parseInt(urlParams.get('page')) || 1, the parameter being <<>> when the
\* URL has none and <<n>> when it reads n: null and 0 both give 1.
ParsePage(p) == IF p = <<>> \/ p[1] = 0 THEN DefaultPage ELSE p[1]

\* Variant: the increment is missing.
NextPageSame(p) == ParsePage(p)

\* currentPage++
NextPage(p) == ParsePage(p) + 1

\* createArticleCard throws on article.language.toUpperCase() when the
\* article has no language.
Throws(article) == article.language = Absent

\* createArticleCard
createArticleCard(article) == Card(article.id, article.language)

\* Index of the first article createArticleCard throws on, 0 if none.
FirstThrow(articles) ==
    IF \E i \in DOMAIN articles : Throws(articles[i])
    THEN CHOOSE i \in DOMAIN articles :
             /\ Throws(articles[i])
             /\ \A j \in 1..(i - 1) : ~Throws(articles[j])
    ELSE 0

\* data.articles.forEach(... articlesGrid.appendChild ...), up to a throw.
AppendCards(cs, articles) ==
    LET stop == FirstThrow(articles)
        n == IF stop = 0 THEN Len(articles) ELSE stop - 1
    IN cs \o [i \in 1..n |-> createArticleCard(articles[i])]

\* Variant: a full page hides the control too.
HideAfterLoadInclusive(n) == n <= PageSize

\* if (data.articles.length < 20) this.style.display = 'none'
HideAfterLoad(n) == n < PageSize

\* urlParams.set('page', currentPage); pushState(`?${urlParams}`)
PushPage(params, page) == [params EXCEPT !.page = <<page>>]

\* A disabled or hidden button receives no click from the user. The handler
\* itself tests neither; the specifications of user behaviour apply this.
Clickable(btn) == ~btn.disabled /\ btn.display # "none"

\* loadMoreBtn 'click' handler, up to its await fetch.
LoadMoreClick ==
    /\ loadMoreBtn' = [loadMoreBtn EXCEPT !.innerHTML = LoadingLabel,
                                          !.disabled = TRUE]
    /\ lmInFlight' = Append(lmInFlight,
           [id |-> Len(lmLog) + 1, originalText |-> loadMoreBtn.innerHTML,
            urlParams |-> url, currentPage |-> NextPage(url.page)])
    /\ lmLog' = Append(lmLog,
           [page |-> NextPage(url.page), urlAtClick |-> url,
            outcome |-> "pending", articles |-> <<>>, cardsBefore |-> <<>>])
    /\ UNCHANGED <<articleCards, url, timers>>
    /\ UNCHANGED <<filterVars, searchVars, notifVars>>
    /\ UNCHANGED <<fetchVars, statusVars, timeVars>>

\* The outcome of one handler run, for the history.
LoadOutcome(resp) ==
    IF resp.kind # "json" THEN "failed"
    ELSE IF ~HasArticles(resp) THEN "empty"
    ELSE IF FirstThrow(resp.articles) # 0 THEN "failed"
    ELSE "loaded"

\* The same handler from the fetch response on, for the k-th request still
\* in flight.
LoadMoreResponse(k, resp) ==
    /\ k \in DOMAIN lmInFlight
    /\ LET req == lmInFlight[k]
           restored == [loadMoreBtn EXCEPT !.innerHTML = req.originalText,
                                           !.disabled = FALSE]
       IN /\ lmInFlight' = RemoveAt(lmInFlight, k)
          /\ lmLog' = [lmLog EXCEPT ![req.id].outcome = LoadOutcome(resp),
                                    ![req.id].articles = resp.articles,
                                    ![req.id].cardsBefore = cards]
          /\ IF resp.kind # "json"
             THEN \* await fetch / response.json() / data.articles throws
                  /\ loadMoreBtn' = restored
                  /\ Notify("Error loading more articles.", "error", timers)
                  /\ UNCHANGED <<cards, url>>
             ELSE IF ~HasArticles(resp)
             THEN /\ loadMoreBtn' = [restored EXCEPT !.display = "none"]
                  /\ UNCHANGED <<cards, url, timers, notifVars>>
             ELSE IF FirstThrow(resp.articles) # 0
             THEN \* createArticleCard throws part-way through the forEach
                  /\ cards' = AppendCards(cards, resp.articles)
                  /\ loadMoreBtn' = restored
                  /\ Notify("Error loading more articles.", "error", timers)
                  /\ UNCHANGED url
             ELSE /\ cards' = AppendCards(cards, resp.articles)
                  /\ url' = PushPage(req.urlParams, req.currentPage)
                  /\ loadMoreBtn' =
                       IF HideAfterLoad(Len(resp.articles))
                       THEN [restored EXCEPT !.display = "none"]
                       ELSE restored
                  /\ UNCHANGED <<timers, notifVars>>
    /\ UNCHANGED <<articleCards, dropdownValue, activeBtn, articleCount,
                   lastSelection, domAtSelection>>
    /\ UNCHANGED searchVars
    /\ UNCHANGED <<fetchVars, statusVars, timeVars>>

\* ---------------------------------------------------------------- search
\* Text typed into #searchInput, as a sequence of characters.
SearchInputs == {<<>>, <<" ">>, <<"a">>, <<" ", "b", " ">>}

\* String.prototype.trim
RECURSIVE TrimLeft(_)
TrimLeft(s) ==
    IF s # <<>> /\ Head(s) = " " THEN TrimLeft(Tail(s)) ELSE s

RECURSIVE TrimRight(_)
TrimRight(s) ==
    IF s # <<>> /\ s[Len(s)] = " "
    THEN TrimRight(SubSeq(s, 1, Len(s) - 1)) ELSE s

\* Variant: the input is used untrimmed.
TrimNothing(s) == s

Trim(s) == TrimRight(TrimLeft(s))

\* e.preventDefault() is the handler's first statement.
PreventsDefault(query) == TRUE

\* if (!query) return;
IssuesRequest(query) == query # <<>>

\* Variant: the badge tests for 'rw' instead of 'en'.
SearchBadgeByRw(article) == IF article.language = "rw" THEN "RW" ELSE "EN"

\* article.language === 'en' ? EN : RW
SearchBadge(article) == IF article.language = "en" THEN "EN" ELSE "RW"

\* The result list written to searchResults.innerHTML.
RenderResults(query, articles) ==
    [kind |-> "results", query |-> query, count |-> Len(articles),
     items |-> [i \in DOMAIN articles |->
                   [id |-> articles[i].id, title |-> articles[i].title,
                    badge |-> SearchBadge(articles[i])]]]

\* The placeholder written when there is nothing to list.
RenderNoResults(query) ==
    [kind |-> "no-results", query |-> query, count |-> 0, items |-> <<>>]

\* Variant: a container already showing a result is left alone.
SearchContainerFirstWins(current, query, resp) ==
    IF current.display = "block" THEN current
    ELSE [innerHTML |-> IF HasArticles(resp)
                        THEN [kind |-> "results", query |-> query,
                              count |-> Len(resp.articles), items |-> <<>>]
                        ELSE [kind |-> "no-results", query |-> query,
                              count |-> 0, items |-> <<>>],
          display |-> "block"]

\* What a parsed response leaves in #searchResults.
SearchContainer(current, query, resp) ==
    [innerHTML |-> IF HasArticles(resp)
                   THEN RenderResults(query, resp.articles)
                   ELSE RenderNoResults(query),
     display |-> "block"]

\* History entry of one submission: the container as the submission found it,
\* the searches then in flight, and, once the response is handled, the
\* response, the container just before and just after, and the order of
\* resolution.
LogEntry(input, query, outcome) ==
    [input |-> input, query |-> query, outcome |-> outcome,
     before |-> searchResults, pendingAtSubmit |-> searchInFlight,
     atResponse |-> searchResults, after |-> searchResults,
     resp |-> ErrorResponse, resolvedAt |-> 0]

\* searchForm 'submit' handler, up to its await fetch.
SearchSubmit(input) ==
    /\ LET query == Trim(input)
           id == Len(searchLog) + 1
       IN /\ defaultPrevented' = PreventsDefault(query)
          /\ IF IssuesRequest(query)
             THEN /\ searchInFlight' =
                        searchInFlight \cup {[id |-> id, query |-> query]}
                  /\ searchSeq' = searchSeq + 1
                  /\ searchLog' = Append(searchLog,
                        LogEntry(input, query, "pending"))
             ELSE /\ searchLog' = Append(searchLog,
                        LogEntry(input, query, "noop"))
                  /\ UNCHANGED <<searchInFlight, searchSeq>>
    /\ UNCHANGED <<searchResults, articleCards, url, timers>>
    /\ UNCHANGED <<cards, dropdownValue, activeBtn, articleCount,
                   lastSelection, domAtSelection>>
    /\ UNCHANGED <<loadVars, notifVars>>
    /\ UNCHANGED <<fetchVars, statusVars, timeVars>>

\* Number of searches whose response has been handled.
Resolved(log) == Cardinality({i \in DOMAIN log : log[i].resolvedAt > 0})

\* The same handler from the fetch response on.
SearchResponse(req, resp) ==
    /\ req \in searchInFlight
    /\ searchInFlight' = searchInFlight \ {req}
    /\ IF resp.kind = "json"
       THEN /\ searchResults' = SearchContainer(searchResults, req.query, resp)
            /\ UNCHANGED <<timers, notifVars>>
       ELSE /\ Notify("Error performing search. Please try again.", "error",
                      timers)
            /\ UNCHANGED searchResults
    /\ searchLog' =
         [searchLog EXCEPT
            ![req.id].outcome = IF resp.kind = "json" THEN "shown" ELSE "failed",
            ![req.id].atResponse = searchResults,
            ![req.id].after = searchResults',
            ![req.id].resp = resp,
            ![req.id].resolvedAt = Resolved(searchLog) + 1]
    /\ UNCHANGED <<defaultPrevented, searchSeq, articleCards, url>>
    /\ UNCHANGED <<cards, dropdownValue, activeBtn, articleCount,
                   lastSelection, domAtSelection>>
    /\ UNCHANGED loadVars
    /\ UNCHANGED <<fetchVars, statusVars, timeVars>>

\* ------------------------------------------------------------ page load
\* Server-rendered cards: every language sequence up to the bound.
RECURSIVE LangSeqs(_)
LangSeqs(n) ==
    IF n = 0 THEN {<<>>}
    ELSE LET shorter == LangSeqs(n - 1)
         IN shorter \cup {Append(s, l) : s \in {t \in shorter : Len(t) = n - 1},
                                         l \in Languages}

InitialGrids ==
    {[i \in DOMAIN ls |-> Card(i, ls[i])] : ls \in LangSeqs(MaxInitCards)}

\* The labels of the fetch-now trigger: a text and, while the countdown
\* runs, the seconds it shows.
FetchLabel == [text |-> "Fetch Latest News", n |-> 0]
FetchingLabel == [text |-> "Fetching...", n |-> 0]
RefreshingLabel(n) == [text |-> "Refreshing in", n |-> n]

\* The server-rendered status indicator and stats slots. A page may come
\* without the indicator: getElementById('backendStatus') is then null.
InitialStatus == [className |-> "status-indicator", detail |-> "Checking..."]
NoStatusElement == [className |-> "no element", detail |-> ""]
StatusElements == {InitialStatus, NoStatusElement}
InitialStats == [total |-> 0, english |-> 0, kinyarwanda |-> 0]

\* if (statusElement)
HasStatusElement(el) == el # NoStatusElement

\* checkBackendStatus, called once per DOMContentLoaded, up to its await:
\* the number of health requests it sends.
HealthRequestsAtLoad(el) == IF HasStatusElement(el) THEN 1 ELSE 0

\* The history entry each DOMContentLoaded opens.
LoadEntry(el) ==
    [indicator |-> HasStatusElement(el), health |-> HealthRequestsAtLoad(el),
     stats |-> 0, outcome |-> "pending", statsHandled |-> 0]
NoLabel == [kind |-> "none", n |-> 0]

\* The page after DOMContentLoaded, for a given grid, location, timestamp
\* age and status indicator.
InitPage(grids, urls, ages, statuses) ==
    /\ cards \in grids
    /\ articleCards = [i \in DOMAIN cards |-> i]
    /\ timers = <<>>
    /\ dropdownValue = "all"
    /\ activeBtn = "all"
    /\ url \in urls
    /\ articleCount = Len(cards)
    /\ loadMoreBtn = [innerHTML |-> OriginalLabel, disabled |-> FALSE,
                      display |-> ""]
    /\ lmInFlight = <<>>
    /\ searchInFlight = {}
    /\ searchResults = [innerHTML |-> [kind |-> "empty", query |-> <<>>,
                                       count |-> 0, items |-> <<>>],
                        display |-> "none"]
    /\ defaultPrevented = FALSE
    /\ notifications = {}
    /\ notifSeq = 0
    /\ searchSeq = 0
    /\ lastSelection = [value |-> "none", via |-> "none", count |-> 0]
    /\ domAtSelection = 0
    /\ lmLog = <<>>
    /\ searchLog = <<>>
    /\ lastShown = [message |-> "", type |-> ""]
    /\ fetchNewsBtn = [innerHTML |-> FetchLabel, disabled |-> FALSE]
    /\ fetchInFlight = {}
    /\ countdowns = <<>>
    /\ fetchLog = <<>>
    /\ reloadLog = <<>>
    /\ backendStatus \in statuses
    /\ healthInFlight = HealthRequestsAtLoad(backendStatus)
    /\ statsInFlight = 0
    /\ stats = InitialStats
    /\ statusLog = <<LoadEntry(backendStatus)>>
    /\ timeInput \in ages
    /\ timeLabel = NoLabel

\* The same with no timestamp to format yet, on a page that has the status
\* indicator.
InitWith(grids, urls) == InitPage(grids, urls, {0}, {InitialStatus})

PlainUrl == [language |-> Absent, page |-> <<>>]
PageUrls ==
    {[language |-> Absent, page |-> p] :
        p \in {<<>>} \cup {<<n>> : n \in 0..MaxStartPage}}
MixedGrid == <<Card(1, "en"), Card(2, "rw")>>

\* Responses of the listing endpoint.
LoadLengths == {0, 1, PageSize - 1, PageSize, PageSize + 1}
LoadResponses(page) ==
    {ErrorResponse, NullResponse, NoListResponse,
     JsonResponse(MkArticles(2, "bad", 100 * page))}
    \cup {JsonResponse(MkArticles(n, "alt", 100 * page)) : n \in LoadLengths}

FewLoadResponses(page) ==
    {ErrorResponse, JsonResponse(MkArticles(1, "rw", 100 * page)),
     JsonResponse(MkArticles(PageSize, "alt", 100 * page))}

\* Responses of the search endpoint.
SearchResponses ==
    {ErrorResponse, NullResponse, NoListResponse}
    \cup {JsonResponse(MkArticles(n, pat, 0)) :
             n \in 0..MaxResults, pat \in {"alt", "bad"}}

\* ------------------------------------------------------------ page load
\* A reload commits: the document is rendered again and DOMContentLoaded
\* runs again. Pending timers, suspended handlers and banners of the old
\* document are gone; the location and the histories stay.
FreshPage(grids) ==
    /\ cards' \in grids
    /\ articleCards' = [i \in DOMAIN cards' |-> i]
    /\ timers' = <<>>
    /\ dropdownValue' = "all"
    /\ activeBtn' = "all"
    /\ articleCount' = Len(cards')
    /\ loadMoreBtn' = [innerHTML |-> OriginalLabel, disabled |-> FALSE,
                       display |-> ""]
    /\ lmInFlight' = <<>>
    /\ searchInFlight' = {}
    /\ searchResults' = [innerHTML |-> [kind |-> "empty", query |-> <<>>,
                                        count |-> 0, items |-> <<>>],
                         display |-> "none"]
    /\ defaultPrevented' = FALSE
    /\ notifications' = {}
    /\ lastSelection' = [value |-> "none", via |-> "none",
                         count |-> lastSelection.count]
    /\ domAtSelection' = 0
    /\ fetchNewsBtn' = [innerHTML |-> FetchLabel, disabled |-> FALSE]
    /\ fetchInFlight' = {}
    /\ countdowns' = <<>>
    /\ backendStatus' =
           IF HasStatusElement(backendStatus) THEN InitialStatus
           ELSE NoStatusElement
    /\ healthInFlight' = HealthRequestsAtLoad(backendStatus')
    /\ statsInFlight' = 0
    /\ stats' = InitialStats
    /\ statusLog' = Append(statusLog, LoadEntry(backendStatus'))
    /\ UNCHANGED <<url, notifSeq, searchSeq, lmLog, searchLog, lastShown,
                   fetchLog, timeVars>>

\* -------------------------------------------------------------- fetch now
\* Bodies the fetch-now endpoint may answer with; a network error rejects
\* the fetch itself.
FetchBodies == {"network-error", "json", "empty", "not-json"}

FetchRejects(body) == body = "network-error"

\* response.json() rejects unless the body is JSON text.
JsonParses(body) == body = "json"

\* The try block reaches showNotification only past both awaits.
FetchSucceeds(body) == ~FetchRejects(body) /\ JsonParses(body)

\* Variant: the trigger shows the busy label but stays enabled.
BusyBtnEnabled(btn) == [innerHTML |-> FetchingLabel, disabled |-> btn.disabled]

\* this.innerHTML = spinner; this.disabled = true.
BusyBtn(btn) == [innerHTML |-> FetchingLabel, disabled |-> TRUE]

\* Variant: the catch block restores the label only.
RestoredBtnDisabled(btn, originalText) ==
    [innerHTML |-> originalText, disabled |-> btn.disabled]

\* catch: this.innerHTML = originalText; this.disabled = false.
RestoredBtn(btn, originalText) ==
    [innerHTML |-> originalText, disabled |-> FALSE]

\* setInterval(callback, 1000).
IntervalTimer(id) == [kind |-> "interval", target |-> id, delay |-> TickDelay]

IsInterval(t) == t.kind = "interval"
NotInterval(t) == t.kind # "interval"
Intervals(ts) == SelectSeq(ts, IsInterval)

\* Variant: starting a countdown clears the ones already running.
PendingAtCountdownStartExclusive(ts) == SelectSeq(ts, NotInterval)

\* The handler clears no timer before it calls setInterval.
PendingAtCountdownStart(ts) == ts

\* The click handler up to its await of fetch().
FetchNowClick ==
    /\ fetchNewsBtn' = BusyBtn(fetchNewsBtn)
    /\ fetchInFlight' = fetchInFlight \cup
           {[id |-> Len(fetchLog) + 1, originalText |-> fetchNewsBtn.innerHTML]}
    /\ fetchLog' = Append(fetchLog,
           [outcome |-> "pending", body |-> "", interval |-> 0])
    /\ UNCHANGED <<countdowns, reloadLog>>
    /\ UNCHANGED <<articleCards, url>>
    /\ UNCHANGED <<filterVars, loadVars, searchVars, notifVars>>
    /\ UNCHANGED <<statusVars, timeVars>>

\* The rest of the handler, from the settled fetch to the end of try or catch.
FetchNowResponse(req, body) ==
    /\ req \in fetchInFlight
    /\ fetchInFlight' = fetchInFlight \ {req}
    /\ IF FetchSucceeds(body)
       THEN /\ NotifyThen(
                   "Started fetching latest news! This may take a moment.",
                   "success", PendingAtCountdownStart(timers),
                   <<IntervalTimer(Len(countdowns) + 1)>>)
            /\ countdowns' = Append(countdowns,
                   [countdown |-> CountdownStart, ticks |-> 0,
                    request |-> req.id])
            /\ fetchLog' = [fetchLog EXCEPT
                   ![req.id].outcome = "started", ![req.id].body = body,
                   ![req.id].interval = Len(countdowns) + 1]
            /\ UNCHANGED fetchNewsBtn
       ELSE /\ fetchNewsBtn' = RestoredBtn(fetchNewsBtn, req.originalText)
            /\ Notify("Error starting news fetch. Please try again.", "error",
                      timers)
            /\ fetchLog' = [fetchLog EXCEPT
                   ![req.id].outcome = "failed", ![req.id].body = body]
            /\ UNCHANGED countdowns
    /\ UNCHANGED reloadLog
    /\ UNCHANGED <<articleCards, url>>
    /\ UNCHANGED <<cards, dropdownValue, activeBtn, articleCount,
                   lastSelection, domAtSelection>>
    /\ UNCHANGED <<loadVars, searchVars>>
    /\ UNCHANGED <<statusVars, timeVars>>

\* Variant: the reload fires as soon as the count reaches zero.
ReloadsAtZero(countdown) == countdown <= 0

\* if (countdown < 0), evaluated after countdown--.
ReloadsAt(countdown) == countdown < 0

\* One run of the interval callback: write the label, decrement, and either
\* leave the interval armed or clear it and call window.location.reload().
\* reload() only starts the navigation and returns: the document stays as
\* it is, with every other timer still armed, until the navigation commits.
IntervalTick(i) ==
    /\ i \in DOMAIN timers
    /\ IsInterval(timers[i])
    /\ Due(timers, i)
    /\ LET id == timers[i].target
           shown == countdowns[id].countdown
           ticks == countdowns[id].ticks + 1
       IN /\ fetchNewsBtn' =
                 [fetchNewsBtn EXCEPT !.innerHTML = RefreshingLabel(shown)]
          /\ countdowns' = [countdowns EXCEPT ![id].countdown = shown - 1,
                                              ![id].ticks = ticks]
          /\ IF ReloadsAt(shown - 1)
             THEN /\ timers' = RemoveAt(timers, i)
                  /\ reloadLog' = Append(reloadLog,
                         [interval |-> id, request |-> countdowns[id].request,
                          ticks |-> ticks, label |-> RefreshingLabel(shown),
                          document |-> Len(statusLog)])
             ELSE /\ timers' = Append(RemoveAt(timers, i), timers[i])
                  /\ UNCHANGED reloadLog
    /\ UNCHANGED <<fetchInFlight, fetchLog>>
    /\ UNCHANGED <<articleCards, url>>
    /\ UNCHANGED <<cards, dropdownValue, activeBtn, articleCount,
                   lastSelection, domAtSelection>>
    /\ UNCHANGED <<loadVars, searchVars, notifVars>>
    /\ UNCHANGED <<statusVars, timeVars>>

\* window.location.reload() has been called on the current document.
ReloadPending ==
    \E k \in DOMAIN reloadLog : reloadLog[k].document = Len(statusLog)

\* The navigation commits: the old document is unloaded and the new one
\* runs DOMContentLoaded.
NavigationCommit ==
    /\ ReloadPending
    /\ FreshPage({MixedGrid})
    /\ UNCHANGED reloadLog

\* --------------------------------------------------------- backend status
\* What the health endpoint may answer: a rejected fetch, a body that is not
\* JSON, the JSON value null, or a JSON object with a message.
HealthResponses ==
    {[kind |-> k, message |-> ""] : k \in {"network-error", "not-json", "null"}}
    \cup {[kind |-> "json", message |-> m] :
              m \in {"System operational", "Degraded"}}

\* fetch, response.json() and data.message all complete.
HealthOk(resp) == resp.kind = "json"

OnlineStatus(resp) ==
    [className |-> "status-indicator online", detail |-> resp.message]
OfflineStatus ==
    [className |-> "status-indicator offline",
     detail |-> "Cannot connect to server"]

\* Variant: updateStats is called whatever the health check gave.
StatsFetchesAfterAlways(resp) == 1

\* updateStats() is the last statement of the try block.
StatsFetchesAfter(resp) == IF HealthOk(resp) THEN 1 ELSE 0

\* checkBackendStatus from its settled fetch to the end of try or catch.
HealthResponse(resp) ==
    /\ healthInFlight > 0
    /\ healthInFlight' = healthInFlight - 1
    /\ backendStatus' =
           IF HealthOk(resp) THEN OnlineStatus(resp) ELSE OfflineStatus
    /\ statsInFlight' = statsInFlight + StatsFetchesAfter(resp)
    /\ statusLog' = [statusLog EXCEPT
           ![Len(statusLog)].outcome =
               IF HealthOk(resp) THEN "online" ELSE "offline",
           ![Len(statusLog)].stats = @ + StatsFetchesAfter(resp)]
    /\ UNCHANGED <<stats, articleCards, url, timers>>
    /\ UNCHANGED <<cards, dropdownValue, activeBtn, articleCount,
                   lastSelection, domAtSelection>>
    /\ UNCHANGED <<loadVars, searchVars, notifVars, fetchVars, timeVars>>

\* What the stats endpoint may answer.
StatsResponses ==
    {[kind |-> k, data |-> InitialStats] : k \in {"network-error", "null"}}
    \cup {[kind |-> "json", data |-> d] :
              d \in {[total |-> 5, english |-> 3, kinyarwanda |-> 2],
                     [total |-> 7, english |-> 4, kinyarwanda |-> 3]}}

StatsOk(resp) == resp.kind = "json"

\* updateStats from its settled fetch to the end of try or catch.
StatsResponse(resp) ==
    /\ statsInFlight > 0
    /\ statsInFlight' = statsInFlight - 1
    /\ stats' = IF StatsOk(resp) THEN resp.data ELSE stats
    /\ statusLog' = [statusLog EXCEPT ![Len(statusLog)].statsHandled = @ + 1]
    /\ UNCHANGED <<backendStatus, healthInFlight, articleCards, url, timers>>
    /\ UNCHANGED <<cards, dropdownValue, activeBtn, articleCount,
                   lastSelection, domAtSelection>>
    /\ UNCHANGED <<loadVars, searchVars, notifVars, fetchVars, timeVars>>

\* The user reloads the page.
UserReload ==
    /\ FreshPage({MixedGrid})
    /\ UNCHANGED reloadLog

\* ---------------------------------------------------------- formatTimeAgo
\* Variant: Math.round in place of Math.floor.
RoundDiv(a, b) == (a + b \div 2) \div b

\* Math.floor(a / b) for an integer a and a positive integer b.
FloorDiv(a, b) == a \div b

\* formatTimeAgo for a timestamp that lies age milliseconds before now. The
\* result is the unit of the text and the number in front of it; the
\* locale-formatted date is the unit "date".
formatTimeAgo(age) ==
    LET seconds == FloorDiv(age, MsPerSecond)
        minutes == FloorDiv(seconds, SecondsPerMinute)
        hours == FloorDiv(minutes, MinutesPerHour)
        days == FloorDiv(hours, HoursPerDay)
    IN IF seconds < SecondsPerMinute THEN [kind |-> "just now", n |-> 0]
       ELSE IF minutes < MinutesPerHour THEN [kind |-> "m ago", n |-> minutes]
       ELSE IF hours < HoursPerDay THEN [kind |-> "h ago", n |-> hours]
       ELSE IF days < DaysPerWeek THEN [kind |-> "d ago", n |-> days]
       ELSE [kind |-> "date", n |-> 0]

\* A card or search result is rendered: its timestamp is formatted.
FormatTime ==
    /\ timeLabel = NoLabel
    /\ timeLabel' = formatTimeAgo(timeInput)
    /\ UNCHANGED <<timeInput, articleCards, url, timers>>
    /\ UNCHANGED <<cards, dropdownValue, activeBtn, articleCount,
                   lastSelection, domAtSelection>>
    /\ UNCHANGED <<loadVars, searchVars, notifVars, fetchVars, statusVars>>

\* Ages in seconds at and around every threshold, and the ages in
\* milliseconds at both ends of each such second.
ThresholdSeconds ==
    {0, 45, 60, 90, 3600, 7200, 86400, 90000, 172800, 604800}
AgeSeconds == {b + d : b \in ThresholdSeconds, d \in (0 - TimeSlack)..TimeSlack}
TimeAges ==
    {s * MsPerSecond + r : s \in AgeSeconds, r \in {0, MsPerSecond - 1}}

\* ------------------------------------------------------- specifications
\* What bounds a run: selections made, load-more clicks, form submissions.
Selecting(max) == lastSelection.count < max
Loading(max) == Len(lmLog) < max
Searching(max) == Len(searchLog) < max

\* Language filter, count label and load-more on one page.
InitFilter == InitWith(InitialGrids, {PlainUrl})

NextFilter ==
    \/ \E sel \in Selections : Selecting(MaxSelections) /\ DropdownChange(sel)
    \/ \E sel \in Selections : Selecting(MaxSelections) /\ LanguageBtnClick(sel)
    \/ \E i \in DOMAIN timers : TimerFire(i)
    \/ Loading(MaxFilterLoads) /\ Clickable(loadMoreBtn) /\ LoadMoreClick
    \/ \E k \in DOMAIN lmInFlight, resp \in FewLoadResponses(Len(lmLog)) :
           LoadMoreResponse(k, resp)
    \/ \E n \in notifications : NotificationClose(n.id)

SpecFilter == InitFilter /\ [][NextFilter]_vars

\* Search form, its responses and the error banner.
InitSearch == InitWith({MixedGrid}, {PlainUrl})

NextSearch ==
    \/ \E input \in SearchInputs : Searching(MaxSearches) /\ SearchSubmit(input)
    \/ \E req \in searchInFlight, resp \in SearchResponses :
           SearchResponse(req, resp)
    \/ \E i \in DOMAIN timers : TimerFire(i)
    \/ \E n \in notifications : NotificationClose(n.id)

SpecSearch == InitSearch /\ [][NextSearch]_vars

\* Load-more pagination and the error banner.
InitLoadMore == InitWith({MixedGrid}, PageUrls)

NextLoadMore ==
    \/ Loading(MaxLoads) /\ Clickable(loadMoreBtn) /\ LoadMoreClick
    \/ \E k \in DOMAIN lmInFlight, resp \in LoadResponses(Len(lmLog)) :
           LoadMoreResponse(k, resp)
    \/ \E i \in DOMAIN timers : TimerFire(i)
    \/ \E n \in notifications : NotificationClose(n.id)

SpecLoadMore == InitLoadMore /\ [][NextLoadMore]_vars

\* The same where the click handler may run whatever the control's state,
\* as a dispatched click event or element.click() on the hidden control
\* makes it.
NextLoadMoreReentrant ==
    \/ Loading(MaxLoads) /\ LoadMoreClick
    \/ \E k \in DOMAIN lmInFlight, resp \in LoadResponses(Len(lmLog)) :
           LoadMoreResponse(k, resp)
    \/ \E i \in DOMAIN timers : TimerFire(i)
    \/ \E n \in notifications : NotificationClose(n.id)

SpecLoadMoreReentrant == InitLoadMore /\ [][NextLoadMoreReentrant]_vars

\* Fetch-now trigger, its countdown and the reload, with clicks delivered
\* only while the trigger is enabled.
Fetching(max) == Len(fetchLog) < max
Enabled(btn) == ~btn.disabled

InitFetch == InitWith({MixedGrid}, {PlainUrl})

NextFetch ==
    \/ Fetching(MaxFetches) /\ Enabled(fetchNewsBtn) /\ FetchNowClick
    \/ \E req \in fetchInFlight, body \in FetchBodies :
           FetchNowResponse(req, body)
    \/ \E i \in DOMAIN timers : IntervalTick(i)
    \/ NavigationCommit
    \/ \E i \in DOMAIN timers : TimerFire(i)
    \/ \E n \in notifications : NotificationClose(n.id)

SpecFetch == InitFetch /\ [][NextFetch]_vars

\* The same where the browser keeps running every armed interval.
SpecFetchLive ==
    SpecFetch /\ WF_vars(\E i \in DOMAIN timers : IntervalTick(i))

\* The same where the click handler may run whatever the trigger's state,
\* as a dispatched click event makes it.
NextFetchReentrant ==
    \/ Fetching(MaxFetches) /\ FetchNowClick
    \/ \E req \in fetchInFlight, body \in FetchBodies :
           FetchNowResponse(req, body)
    \/ \E i \in DOMAIN timers : IntervalTick(i)
    \/ NavigationCommit
    \/ \E i \in DOMAIN timers : TimerFire(i)
    \/ \E n \in notifications : NotificationClose(n.id)

SpecFetchReentrant == InitFetch /\ [][NextFetchReentrant]_vars

\* The banner alone: calls of showNotification, early dismissals and the
\* auto-remove timeouts.
Messages == {"first message", "second message"}
Types == {"success", "error", "info"}
Showing(max) == notifSeq < max

InitNotify == InitWith({MixedGrid}, {PlainUrl})

NextNotify ==
    \/ \E message \in Messages, type \in Types :
           Showing(MaxShows) /\ ShowNotification(message, type)
    \/ \E i \in DOMAIN timers : TimerFire(i)
    \/ \E n \in notifications : NotificationClose(n.id)

SpecNotify == InitNotify /\ [][NextNotify]_vars

\* The same where the browser runs every timeout that is due.
SpecNotifyLive ==
    SpecNotify /\ WF_vars(\E i \in DOMAIN timers : TimerFire(i))

\* Health check and stats over several page loads.
PageLoading(max) == Len(statusLog) < max

InitStatus == InitPage({MixedGrid}, {PlainUrl}, {0}, StatusElements)

NextStatus ==
    \/ \E resp \in HealthResponses : HealthResponse(resp)
    \/ \E resp \in StatsResponses : StatsResponse(resp)
    \/ PageLoading(MaxPageLoads) /\ UserReload

SpecStatus == InitStatus /\ [][NextStatus]_vars

\* formatTimeAgo on its own, over the ages above.
InitTime == InitPage({MixedGrid}, {PlainUrl}, TimeAges, {InitialStatus})

NextTime == FormatTime

SpecTime == InitTime /\ [][NextTime]_vars

\* All handlers at once. The widgets share only the URL, the grid and the
\* banner, so each group of claims is checked under its widget's
\* specification above.
Next ==
    \/ NextFilter
    \/ NextSearch
    \/ NextLoadMoreReentrant
    \/ NextFetchReentrant
    \/ NextNotify
    \/ NextStatus
    \/ NextTime

Spec == InitWith(InitialGrids, PageUrls) /\ [][Next]_vars

\* ================================================================ claims
\* No show or hide timeout of the filter is pending.
FilterSettled ==
    \A i \in DOMAIN timers : timers[i].kind \notin {"show", "hide"}

\* C1: once no filter timer is pending, a card present at page load is
\* visible if and only if the most recent selection is "all" or equals the
\* card's data-language.
C1_SettledVisibilityMatchesSelection ==
    (FilterSettled /\ lastSelection.count > 0) =>
        \A k \in DOMAIN articleCards :
            Visible(cards[articleCards[k]]) <=>
                (lastSelection.value = "all"
                 \/ cards[articleCards[k]].language = lastSelection.value)

\* C2: after a filter settles, every card that was in the DOM at the moment
\* of the selection, cards appended by load-more included, is hidden when its
\* language does not match a selection other than "all".
C2_FilterCoversAppendedCards ==
    (FilterSettled /\ lastSelection.count > 0 /\ lastSelection.value # "all") =>
        \A i \in 1..domAtSelection :
            (i > Len(articleCards) /\ cards[i].language # lastSelection.value)
                => cards[i].display = "none"

\* C3: every language filter operation, from the dropdown or from a button,
\* leaves the URL's language parameter absent for "all" and equal to the
\* selected code otherwise.
C3_UrlMirrorsEverySelection ==
    [][lastSelection'.count > lastSelection.count =>
          url'.language = IF lastSelection'.value = "all" THEN Absent
                          ELSE lastSelection'.value]_vars

\* Number of cards in the grid whose display is not 'none'.
VisibleCards == Cardinality({i \in DOMAIN cards : cards[i].display # "none"})

\* C4: once no filter timer is pending, after any selections and load-more
\* completions, the number shown in articleCount equals the number of cards
\* whose display is not 'none'.
C4_CountEqualsVisibleCards ==
    (FilterSettled /\ lmInFlight = <<>> /\ lastSelection.count > 0) =>
        articleCount = VisibleCards

\* ---------------------------------------------------------------- search
Shown(i) == searchLog[i].outcome = "shown"

\* Number of articles a response carries, 0 when the list is missing.
Carried(resp) == IF resp.hasList THEN Len(resp.articles) ELSE 0

\* The search whose parsed response was handled last.
LastShown ==
    CHOOSE i \in DOMAIN searchLog :
        /\ Shown(i)
        /\ \A j \in DOMAIN searchLog :
               Shown(j) => searchLog[j].resolvedAt <= searchLog[i].resolvedAt

\* C5: overlapping searches are neither cancelled nor de-duplicated; the
\* container shows the result of whichever well-formed response resolved
\* last, whatever the order of submission.
C5_LastResolvedWins ==
    (\E i \in DOMAIN searchLog : Shown(i)) =>
        /\ searchResults.display = "block"
        /\ searchResults.innerHTML.query = searchLog[LastShown].query
        /\ searchResults.innerHTML.count = Carried(searchLog[LastShown].resp)

\* Two searches overlapped, both were answered, and the one submitted first
\* resolved last and is the one on show.
C5_Witness ==
    /\ Len(searchLog) >= 2
    /\ Shown(1) /\ Shown(2)
    /\ \E r \in searchLog[2].pendingAtSubmit : r.id = 1
    /\ searchLog[1].resolvedAt > searchLog[2].resolvedAt
    /\ searchLog[1].query # searchLog[2].query
    /\ searchResults.innerHTML.query = searchLog[1].query

\* C6: a successful response with n >= 1 articles shows exactly n items in
\* response order, each with the article's title and the badge EN for "en"
\* and RW otherwise; with n = 0 or no list it shows the no-results message
\* naming the query.
C6_RenderedResults ==
    \A i \in DOMAIN searchLog :
        Shown(i) =>
            LET resp == searchLog[i].resp
                n == Carried(resp)
                box == searchLog[i].after
            IN /\ box.display = "block"
               /\ box.innerHTML.query = searchLog[i].query
               /\ searchLog[i].query # <<>>
               /\ n >= 1 =>
                    /\ box.innerHTML.kind = "results"
                    /\ Len(box.innerHTML.items) = n
                    /\ \A k \in 1..n :
                         /\ box.innerHTML.items[k].title = resp.articles[k].title
                         /\ box.innerHTML.items[k].badge =
                              IF resp.articles[k].language = "en"
                              THEN "EN" ELSE "RW"
               /\ n = 0 => box.innerHTML.kind = "no-results"

\* A query answered with two articles, one of them without a language, and
\* a query answered with an empty list.
C6_Witness ==
    /\ Len(searchLog) >= 2
    /\ Shown(1) /\ Carried(searchLog[1].resp) = 2
    /\ searchLog[1].resp.articles[2].language = Absent
    /\ searchLog[1].after.innerHTML.items[2].badge = "RW"
    /\ Shown(2) /\ searchLog[2].resp.hasList /\ Carried(searchLog[2].resp) = 0
    /\ searchResults.innerHTML.kind = "no-results"

Failed(i) == searchLog[i].outcome = "failed"

\* C7 as stated: after a failed search the container is exactly what it was
\* before that search was submitted.
C7_ContainerAsBeforeSubmission ==
    \A i \in DOMAIN searchLog : Failed(i) => searchLog[i].after = searchLog[i].before

\* A search fails in this step.
SearchFails ==
    \E i \in DOMAIN searchLog :
        searchLog[i].outcome = "pending" /\ searchLog'[i].outcome = "failed"

\* C7, amended: handling a failed search shows the error notification and
\* leaves the container exactly as it was just before the failure was
\* handled, and every other widget untouched.
C7_FailureLeavesContainer ==
    [][SearchFails =>
          /\ searchResults' = searchResults
          /\ \E n \in notifications' :
                 /\ n.type = "error"
                 /\ n.message = "Error performing search. Please try again."
          /\ Cardinality(notifications') = 1
          /\ UNCHANGED <<cards, url, articleCount, dropdownValue, activeBtn,
                         loadMoreBtn, lmInFlight>>]_vars

\* A search failed after another search, submitted later, had been rendered:
\* the container kept that rendering and the banner is up.
C7_Witness ==
    /\ Len(searchLog) >= 2
    /\ Failed(1) /\ Shown(2)
    /\ searchLog[1].resolvedAt > searchLog[2].resolvedAt
    /\ searchLog[1].after = searchLog[2].after
    /\ searchLog[1].after # searchLog[1].before
    /\ \E n \in notifications : n.type = "error"

\* The input holds nothing but spaces.
Blank(input) == \A k \in DOMAIN input : input[k] = " "

\* A blank form is submitted in this step.
BlankSubmit ==
    /\ Len(searchLog') = Len(searchLog) + 1
    /\ Blank(searchLog'[Len(searchLog')].input)

\* C8: submitting an empty or whitespace-only query issues no request,
\* leaves the container and the notifications unchanged, and still prevents
\* the form's default submission.
C8_BlankSubmitIsNoOp ==
    [][BlankSubmit =>
          /\ searchInFlight' = searchInFlight
          /\ searchSeq' = searchSeq
          /\ searchResults' = searchResults
          /\ notifications' = notifications
          /\ timers' = timers
          /\ defaultPrevented']_vars

\* A whitespace-only submission arrived while a result was on show and a
\* request was issued for neither it nor anything after it.
C8_Witness ==
    /\ Len(searchLog) = 2
    /\ Shown(1)
    /\ searchLog[2].input = <<" ">>
    /\ searchLog[2].outcome = "noop"
    /\ searchSeq = 1
    /\ searchInFlight = {}
    /\ searchResults = searchLog[1].after
    /\ defaultPrevented

StartPage(u) ==
    IF u.page = <<>> THEN 1 ELSE IF u.page = <<0>> THEN 1 ELSE u.page[1]

LoadSucceeds ==
    /\ Len(lmInFlight') < Len(lmInFlight)
    /\ lmLog'[Len(lmLog)].outcome \in {"loaded", "empty"}

\* C10: after a successful response with n articles the control is hidden
\* exactly when n < 20 and otherwise stays visible, enabled and with its
\* original label; when n >= 1 exactly n cards are appended at the end of
\* the grid in response order and no existing card is removed or changed.
C10_LoadMoreSuccess ==
    [][LoadSucceeds =>
          LET arts == lmLog'[Len(lmLog)].articles
              n == Len(arts)
              old == Len(cards)
          IN /\ (loadMoreBtn'.display = "none") <=> (n < PageSize)
             /\ n >= PageSize =>
                  /\ loadMoreBtn'.display = loadMoreBtn.display
                  /\ ~loadMoreBtn'.disabled
                  /\ loadMoreBtn'.innerHTML = OriginalLabel
             /\ Len(cards') = old + n
             /\ SubSeq(cards', 1, old) = cards
             /\ \A i \in 1..n :
                  /\ cards'[old + i].id = arts[i].id
                  /\ cards'[old + i].language = arts[i].language]_vars

\* A full page was appended behind the two server-rendered cards and the
\* control is still there, enabled, with its label back.
C10_Witness ==
    /\ Len(lmLog) = 1
    /\ lmLog[1].outcome = "loaded"
    /\ Len(lmLog[1].articles) = PageSize
    /\ Len(cards) = Len(lmLog[1].cardsBefore) + PageSize
    /\ loadMoreBtn = [innerHTML |-> OriginalLabel, disabled |-> FALSE,
                      display |-> ""]

\* A load-more click ends on the failure path in this step.
LoadFails ==
    /\ Len(lmInFlight') < Len(lmInFlight)
    /\ lmLog'[Len(lmLog)].outcome = "failed"

\* C11: when a load-more click ends on the failure path (network error,
\* unparseable body, or an error while building or appending cards) the
\* control is back to its original label, enabled and visible, an error
\* notification is shown, the grid holds exactly the cards it held before
\* and the URL's page parameter is unchanged.
C11_FailureKeepsWidgetState ==
    [][LoadFails =>
          /\ loadMoreBtn' = [innerHTML |-> OriginalLabel, disabled |-> FALSE,
                             display |-> ""]
          /\ \E n \in notifications' :
                 n.type = "error" /\ n.message = "Error loading more articles."
          /\ cards' = cards
          /\ url'.page = url.page]_vars

\* A load-more response with at least one article is handled in this step.
LoadAppends ==
    /\ Len(lmInFlight') < Len(lmInFlight)
    /\ lmLog'[Len(lmLog)].outcome = "loaded"

\* C20: a load-more completion changes only the page parameter of the URL;
\* the language parameter keeps the value it has when the response is
\* handled, also when the dropdown rewrote it while the request was in
\* flight.
C20_CompletionKeepsLanguageParam ==
    [][LoadAppends => url'.language = url.language]_vars


\* The handler of request id resumes from its fetch in this step.
FetchSettles(id) ==
    fetchLog[id].outcome = "pending" /\ fetchLog'[id].outcome # "pending"
FetchStarts(id) ==
    fetchLog[id].outcome = "pending" /\ fetchLog'[id].outcome = "started"
FetchFails(id) ==
    fetchLog[id].outcome = "pending" /\ fetchLog'[id].outcome = "failed"

SuccessShown(ns) ==
    \E n \in ns :
        /\ n.type = "success"
        /\ n.message = "Started fetching latest news! This may take a moment."
FetchErrorShown(ns) ==
    \E n \in ns :
        /\ n.type = "error"
        /\ n.message = "Error starting news fetch. Please try again."

\* C12: once the fetch-now POST has received a response, whatever its body
\* (JSON, empty, not valid JSON), the handler shows the success notification
\* and starts the countdown.
C12_AnyResponseStartsCountdown ==
    [][\A id \in DOMAIN fetchLog :
          (FetchSettles(id) /\ ~FetchRejects(fetchLog'[id].body)) =>
              /\ fetchLog'[id].outcome = "started"
              /\ SuccessShown(notifications')
              /\ Len(Intervals(timers')) = Len(Intervals(timers)) + 1]_vars

\* C13 as stated: the page reload is performed on the 30th tick after the
\* countdown starts.
C13_ReloadOnThirtiethTick ==
    \A k \in DOMAIN reloadLog : reloadLog[k].ticks = CountdownStart

\* C13 (amended): after a successful fetch-now request the label shows the
\* remaining seconds starting at 30 and decreasing by one per tick down to 0;
\* the reload is performed on the 31st tick, the one that shows 0 and takes
\* the count below zero; no interval is armed after that tick; and every
\* armed countdown leads to its reload call when the interval keeps firing.
C13_CountdownRunsToReload ==
    /\ [](\A id \in DOMAIN countdowns :
             /\ countdowns[id].countdown = CountdownStart - countdowns[id].ticks
             /\ countdowns[id].ticks > 0 =>
                    fetchNewsBtn.innerHTML =
                        RefreshingLabel(countdowns[id].countdown + 1))
    /\ [](\A k \in DOMAIN reloadLog :
             /\ reloadLog[k].ticks = CountdownStart + 1
             /\ reloadLog[k].label = RefreshingLabel(0))
    /\ [][reloadLog' # reloadLog => Intervals(timers') = <<>>]_vars
    /\ \A n \in 0..MaxFetches :
           (Intervals(timers) # <<>> /\ Len(reloadLog) = n)
               ~> (Len(reloadLog) = n + 1)

C13_Witness ==
    /\ reloadLog # <<>>
    /\ reloadLog[1].ticks = CountdownStart + 1
    /\ Intervals(timers) = <<>>

\* C14: when the fetch-now request fails the trigger gets back the label it
\* had at click time and is enabled, an error notification is shown, and that
\* click never has a countdown timer or a reload.
C14_FailureRestoresTrigger ==
    /\ [][\A req \in fetchInFlight :
             FetchFails(req.id) =>
                 /\ fetchNewsBtn' = [innerHTML |-> req.originalText,
                                     disabled |-> FALSE]
                 /\ FetchErrorShown(notifications')
                 /\ Intervals(timers') = Intervals(timers)
                 /\ reloadLog' = reloadLog]_vars
    /\ [](\A id \in DOMAIN fetchLog :
             fetchLog[id].outcome = "failed" =>
                 /\ fetchLog[id].interval = 0
                 /\ \A c \in DOMAIN countdowns : countdowns[c].request # id
                 /\ \A k \in DOMAIN reloadLog : reloadLog[k].request # id)

C14_Witness ==
    /\ \E id \in DOMAIN fetchLog :
           /\ fetchLog[id].outcome = "failed"
           /\ fetchLog[id].body = "network-error"
    /\ fetchNewsBtn = [innerHTML |-> FetchLabel, disabled |-> FALSE]
    /\ FetchErrorShown(notifications)
    /\ Intervals(timers) = <<>>

\* C15: when the fetch-now handler runs again after a countdown has started
\* and before the reload, its success creates a second interval timer next to
\* the first, which is not cleared: an interval is cleared only by its own
\* callback when that calls reload, leaving the others armed, or goes with
\* the document when the navigation commits.
C15_SecondIntervalRunsConcurrently ==
    /\ [][\A id \in DOMAIN fetchLog :
             FetchStarts(id) =>
                 Intervals(timers') =
                     Intervals(timers) \o
                         <<IntervalTimer(fetchLog'[id].interval)>>]_vars
    /\ [][(reloadLog' = reloadLog /\ Len(statusLog') = Len(statusLog)) =>
             Len(Intervals(timers')) >= Len(Intervals(timers))]_vars
    /\ [][reloadLog' # reloadLog =>
             Len(Intervals(timers')) = Len(Intervals(timers)) - 1]_vars

C15_Witness ==
    /\ Len(Intervals(timers)) = 2
    /\ Len(countdowns) = 2
    /\ \A c \in DOMAIN countdowns : countdowns[c].ticks > 0
    /\ countdowns[1].ticks > countdowns[2].ticks + 1

\* C16: the page never holds more than one notification element, whatever
\* the sequence of show calls, early dismissals and auto-remove timeouts; and
\* right after a show call it holds exactly one, the new element carrying the
\* message and type just given.
C16_AtMostOneNotification ==
    /\ [](Cardinality(notifications) <= 1)
    /\ [][notifSeq' # notifSeq =>
             notifications' = {[id |-> notifSeq',
                                message |-> lastShown'.message,
                                type |-> lastShown'.type]}]_vars

C16_Witness ==
    /\ notifSeq = 2
    /\ Len(timers) = 2
    /\ notifications = {[id |-> 2, message |-> "second message",
                         type |-> "info"]}
    /\ lastShown.message = "second message"

\* The health request of the current page load has been answered.
HealthAnswered == statusLog[Len(statusLog)].outcome # "pending"

\* updateStats resumes from its fetch in this step.
StatsHandled ==
    /\ Len(statusLog') = Len(statusLog)
    /\ statusLog'[Len(statusLog)].statsHandled
           > statusLog[Len(statusLog)].statsHandled

\* C17 as stated: every page load sends exactly one request to the health
\* endpoint.
C17_OneHealthRequestEveryLoad ==
    \A k \in DOMAIN statusLog : statusLog[k].health = 1

\* C17 (amended): every load of a page that has the status indicator sends
\* exactly one health request, never a second; a page without the indicator
\* sends no health request and no stats fetch. A successful health request
\* sets the indicator to online and is followed by exactly one stats fetch,
\* a failed one sets it to offline and is followed by none; and handling the
\* stats response leaves the indicator as it was.
C17_OneHealthCheckPerLoad ==
    /\ [](\A k \in DOMAIN statusLog :
             /\ statusLog[k].indicator => statusLog[k].health = 1
             /\ ~statusLog[k].indicator =>
                    /\ statusLog[k].health = 0
                    /\ statusLog[k].outcome = "pending"
             /\ statusLog[k].outcome = "pending" => statusLog[k].stats = 0
             /\ statusLog[k].outcome = "online" => statusLog[k].stats = 1
             /\ statusLog[k].outcome = "offline" => statusLog[k].stats = 0
             /\ statusLog[k].statsHandled <= statusLog[k].stats)
    /\ [](/\ healthInFlight + (IF HealthAnswered THEN 1 ELSE 0)
                 = statusLog[Len(statusLog)].health
          /\ statsInFlight + statusLog[Len(statusLog)].statsHandled
                 = statusLog[Len(statusLog)].stats
          /\ statusLog[Len(statusLog)].indicator
                 <=> HasStatusElement(backendStatus)
          /\ statusLog[Len(statusLog)].outcome = "online"
                 <=> backendStatus.className = "status-indicator online"
          /\ statusLog[Len(statusLog)].outcome = "offline"
                 <=> backendStatus = OfflineStatus)
    /\ [][StatsHandled => backendStatus' = backendStatus]_vars

C17_Witness ==
    /\ Len(statusLog) = 2
    /\ statusLog[1].outcome = "offline"
    /\ statusLog[1].stats = 0
    /\ statusLog[2].outcome = "online"
    /\ statusLog[2].statsHandled = 1
    /\ stats = InitialStats
    /\ backendStatus = [className |-> "status-indicator online",
                        detail |-> "Degraded"]

\* C18: with s the age in whole seconds, formatTimeAgo gives "just now" for
\* s < 60, floor(s/60) minutes for 60 <= s < 3600, floor(s/3600) hours for
\* 3600 <= s < 86400, floor(s/86400) days for 86400 <= s < 604800 and a date
\* otherwise: the nested divisions of the code agree with these direct ones.
C18_TimeAgoThresholds ==
    timeLabel # NoLabel =>
        LET s == timeInput \div 1000
        IN timeLabel =
               IF s < 60 THEN [kind |-> "just now", n |-> 0]
               ELSE IF s < 3600 THEN [kind |-> "m ago", n |-> s \div 60]
               ELSE IF s < 86400 THEN [kind |-> "h ago", n |-> s \div 3600]
               ELSE IF s < 604800 THEN [kind |-> "d ago", n |-> s \div 86400]
               ELSE [kind |-> "date", n |-> 0]

\* 25 hours in the past gives "1d ago".
C18_Witness ==
    /\ timeInput = 90000 * MsPerSecond
    /\ timeLabel = [kind |-> "d ago", n |-> 1]

OnPage(id) == \E n \in notifications : n.id = id

\* The timeout registered for notification id runs in this step.
OwnTimerFires(id) ==
    \E i \in DOMAIN timers :
        timers[i] = NotifyTimer(id) /\ timers' = RemoveAt(timers, i)

\* C21: the auto-remove timeout of a notification removes only that
\* notification. A notification leaves the page only when its own timeout
\* runs, a new notification is shown, or the user closes it; a timeout left
\* over from an earlier notification leaves a later one in place; and every
\* notification on the page still has its timeout pending and is eventually
\* removed.
C21_TimerRemovesOnlyItsNotification ==
    /\ [][\A n \in notifications \ notifications' :
             \/ OwnTimerFires(n.id)
             \/ notifSeq' # notifSeq
             \/ timers' = timers]_vars
    /\ [][\A id \in 1..notifSeq :
             (OwnTimerFires(id) /\ notifSeq' = notifSeq) =>
                 notifications' = {n \in notifications : n.id # id}]_vars
    /\ [](\A n \in notifications :
             \E i \in DOMAIN timers : timers[i] = NotifyTimer(n.id))
    /\ \A id \in 1..MaxShows : OnPage(id) ~> ~OnPage(id)

\* The timeout of the first notification has run while the second one was
\* on the page, and the second one is still there.
C21_Witness ==
    /\ notifSeq = 2
    /\ OnPage(2)
    /\ timers = <<NotifyTimer(2)>>

\* C19: with clicks delivered only to an enabled trigger, the trigger is
\* disabled from the click until the request fails or the page reloads, so
\* at most one fetch-now request is in flight and at most one countdown
\* interval exists at any time.
C19_DisabledWhileBusy ==
    /\ []((fetchInFlight # {} \/ Intervals(timers) # <<>>) =>
             fetchNewsBtn.disabled)
    /\ [](Cardinality(fetchInFlight) + Len(Intervals(timers)) <= 1)
    /\ [][(fetchNewsBtn.disabled /\ ~fetchNewsBtn'.disabled) =>
             \/ \E id \in DOMAIN fetchLog : FetchFails(id)
             \/ Len(statusLog') > Len(statusLog)]_vars

C19_Witness ==
    /\ Len(Intervals(timers)) = 1
    /\ countdowns[1].ticks > 0
    /\ fetchNewsBtn.disabled
    /\ Len(fetchLog) = MaxFetches

====
